---- MODULE Spec2Model ----
(***************************************************************************)
(* Model of the annual-report question-answering backend:                  *)
(*   src/src/api.py          the FastAPI handlers and their module globals *)
(*   src/src/qa_chain.py     QAChain: context, history, token budget, LLM  *)
(*   src/src/vector_store.py VectorStore: the wrapper around Chroma        *)
(*                                                                         *)
(* Texts are abstracted to what the code looks at: their identity and      *)
(* their length in characters.  The tokenizer (tiktoken) is modelled as    *)
(* one token per CharsPerToken characters, rounded up.                     *)
(***************************************************************************)
EXTENDS Integers, Sequences, FiniteSets, TLC

VARIABLES
    vector_stores,  \* api.py:30   the module-global list of VectorStore objects
    qa_chain,       \* api.py:31   the module-global QAChain, or None
    chroma,         \* the directory data/chroma and the documents of the collection in it
    uploads,        \* the upload_file coroutines suspended at `await file.read()`
    last            \* the most recent handler step: its request, response, log and LLM call

vars == <<vector_stores, qa_chain, chroma, uploads, last>>

----------------------------------------------------------------------------
(* Program constants *)

MAX_REPORTS == 3
TOKEN_LIMIT == 15000
CONTEXT_CHARS == 10000
TOP_DOCS == 3
RETRIEVER_K == 5
HISTORY_WINDOW == 3
CHUNK_SIZE == 1000
MAX_ANSWER_TOKENS == 1000
N_RESULTS == 5           \* VectorStore.search(n_results=5)

(* Bounds of the model *)

MaxUploads == 2          \* upload requests that can be in flight at once
MaxChainSize == 5        \* stores plus recorded exchanges of a QAChain run directly
MaxApiHistory == 1       \* exchanges recorded through /api/question
ChunksPerFile == 2       \* chunks the text splitter yields for a readable PDF
CharsPerToken == 4       \* the tokenizer: characters per token
SmallQuestionChars == 40
BigQuestionChars == 100000
ShortAnswerChars == 200
LongChunkChars == 6000   \* a chunk added through add_documents by another caller
MaxTextRuns == 3         \* runs of word or of whitespace characters in a text
MaxWordChars == 3        \* characters of a word
MaxSplitSize == 3        \* chunk_size given to _split_text_into_chunks

----------------------------------------------------------------------------
(* Inputs *)

MISSING == "<no question key>"       \* request.get("question") returns None
Questions == {"q1", "qbig"}
QuestionInputs == {"q1", "", MISSING}    \* the request bodies sent to the API
Answers == {"a1", "a2"}

Files == {"report.pdf", "broken.pdf", "scan.pdf", "blank.pdf"}
SeedFiles == <<"a.pdf", "b.pdf", "c.pdf">>
LongFile == "long.txt"               \* a document whose chunks exceed CHUNK_SIZE

\* What PdfReader and RecursiveCharacterTextSplitter make of an uploaded file.
FileKind(f) ==
    CASE f = "broken.pdf" -> "unparseable"
      [] f = "scan.pdf"   -> "no_text"
      [] f = "blank.pdf"  -> "no_chunks"
      [] OTHER            -> "ok"

\* The outcomes of chain.invoke / general_llm.invoke.
LLMOutcomes ==
    {[kind |-> "ok", content |-> a] : a \in Answers}
    \cup {[kind |-> k, content |-> ""] :
            k \in {"rate_limit_exceeded", "Request too large", "error"}}

\* The outcomes of QAChain.run's calls into its libraries: tiktoken raises in
\* _count_tokens (the LLM is then never called), or the LLM call ends.
RunOutcomes == LLMOutcomes \cup {[kind |-> "count_tokens raises", content |-> ""]}

Min(a, b) == IF a < b THEN a ELSE b

\* len(text) of the texts the model names.
TextChars(t) ==
    CASE t = "q1"   -> SmallQuestionChars
      [] t = "qbig" -> BigQuestionChars
      [] t = "a1"   -> ShortAnswerChars
      [] t = "a2"   -> MAX_ANSWER_TOKENS * CharsPerToken
      [] t = "No previous conversation." -> 25
      [] OTHER      -> 0

----------------------------------------------------------------------------
(* vector_store.py *)

None == "None"

\* The attributes a VectorStore object answers to.
VectorStoreMethods_with_add_texts ==
    {"create_collection", "add_documents", "get_retriever", "search",
     "get_stats", "persist", "reset", "add_texts"}

VectorStoreMethods ==
    {"create_collection", "add_documents", "get_retriever", "search",
     "get_stats", "persist", "reset"}

\* VectorStore() followed by create_collection(): every store opens the
\* collection "annual_report" of the directory "data/chroma".
NewStore == [persist_directory |-> "data/chroma", vectorstore |-> "annual_report"]

\* VectorStore() alone: no collection yet.
FreshStore == [persist_directory |-> "data/chroma", vectorstore |-> None]

\* VectorStore() followed by create_collection(name="other"), nothing added.
OtherStore == [persist_directory |-> "data/chroma", vectorstore |-> "other"]

\* The documents the upload numbered `report` adds: one per chunk, with the
\* metadata of api.py:96 (`report` records which upload added it).
DocsOf(f, report) ==
    {[source |-> f, chunk |-> c, report |-> report] : c \in 0..(ChunksPerFile - 1)}

DocChars(d) ==
    IF d.source = LongFile THEN LongChunkChars
    ELSE IF d.chunk < ChunksPerFile - 1 THEN CHUNK_SIZE ELSE CHUNK_SIZE \div 2

\* Similarity of a document to a question: smaller is closer.
Distance(q, d) ==
    IF q = "q1" THEN 10 * d.report + d.chunk
    ELSE 10 * (10 - d.report) + d.chunk

RECURSIVE TopK(_, _, _)
TopK(S, q, k) ==
    IF k = 0 \/ S = {} THEN <<>>
    ELSE LET d == CHOOSE x \in S : \A y \in S : Distance(q, x) <= Distance(q, y)
         IN  <<d>> \o TopK(S \ {d}, q, k - 1)

\* The documents of the collection a store has open; only "annual_report" is
\* ever added to.
Collection(store) ==
    IF store.vectorstore = "annual_report" THEN chroma.docs ELSE {}

\* get_retriever().get_relevant_documents(question): the k = 5 nearest
\* documents of the collection the store has open.
get_relevant_documents(store, q) == TopK(Collection(store), q, RETRIEVER_K)

----------------------------------------------------------------------------
(* qa_chain.py *)

NoChain == [active |-> FALSE, conversation_history |-> <<>>]
NewChain == [active |-> TRUE, conversation_history |-> <<>>]

EmptyContext == [sections |-> <<>>, keep |-> 0]

Prefix_whole(s, n) == s

Prefix(s, n) == SubSeq(s, 1, Min(n, Len(s)))

RECURSIVE SumChars(_)
SumChars(docs) ==
    IF docs = <<>> THEN 0 ELSE DocChars(Head(docs)) + SumChars(Tail(docs))

\* len(f"Report {i}:\n{report_context}")
SectionChars(s) == 10 + SumChars(s.docs) + 2 * (Len(s.docs) - 1)

RECURSIVE JoinedChars(_)
JoinedChars(secs) ==
    IF secs = <<>> THEN 0
    ELSE SectionChars(Head(secs))
         + (IF Len(secs) > 1 THEN 7 ELSE 0) + JoinedChars(Tail(secs))

RECURSIVE Sections(_, _, _)
Sections(vs, q, i) ==
    IF i > Len(vs) THEN <<>>
    ELSE LET docs == Prefix(get_relevant_documents(vs[i], q), TOP_DOCS)
         IN  (IF docs # <<>> THEN <<[report |-> i, docs |-> docs]>> ELSE <<>>)
             \o Sections(vs, q, i + 1)

\* Whether a retrieval of _get_context raises: `bad` names the store whose
\* retriever raises (0: none); a store without a collection makes
\* get_retriever raise ValueError.
retrieval_raises(vs, bad) ==
    bad \in 1..Len(vs) \/ (\E i \in 1..Len(vs) : vs[i].vectorstore = None)

\* The sections gathered before the failing store are returned.
get_context_keeps_gathered(vs, q, bad) ==
    LET ok   == IF bad \in 1..Len(vs) THEN SubSeq(vs, 1, bad - 1) ELSE vs
        secs == Sections(ok, q, 1)
    IN  [sections |-> secs, keep |-> JoinedChars(secs)]

\* QAChain._get_context.
get_context(vs, q, bad) ==
    IF retrieval_raises(vs, bad)
    THEN EmptyContext
    ELSE LET secs == Sections(vs, q, 1)
         IN  [sections |-> secs, keep |-> JoinedChars(secs)]

RecentHistory_oldest(h) == Prefix(h, HISTORY_WINDOW)

\* conversation_history[-3:]
RecentHistory(h) ==
    SubSeq(h, Len(h) - Min(HISTORY_WINDOW, Len(h)) + 1, Len(h))

\* QAChain._format_history: the lines later joined by "\n".
format_history(h) ==
    IF h = <<>>
    THEN <<[tag |-> "-", k |-> 0, text |-> "No previous conversation."]>>
    ELSE LET recent == RecentHistory(h)
         IN  [j \in 1..(2 * Len(recent)) |->
                IF j % 2 = 1
                THEN [tag |-> "Q", k |-> (j + 1) \div 2,
                      text |-> recent[(j + 1) \div 2].question]
                ELSE [tag |-> "A", k |-> j \div 2,
                      text |-> recent[j \div 2].answer]]

RECURSIVE HistoryChars(_)
HistoryChars(lines) ==
    IF lines = <<>> THEN 0
    ELSE LET l == Head(lines)
         IN  (IF l.tag = "-" THEN 0 ELSE 4) + TextChars(l.text)
             + (IF Len(lines) > 1 THEN 1 ELSE 0) + HistoryChars(Tail(lines))

\* QAChain._count_tokens, on a text of `chars` characters.
count_tokens(chars) == (chars + CharsPerToken - 1) \div CharsPerToken

Truncate_to_half(ctx) == [ctx EXCEPT !.keep = Min(ctx.keep, CONTEXT_CHARS \div 2)]

\* context[:10000]
Truncate(ctx) == [ctx EXCEPT !.keep = Min(ctx.keep, CONTEXT_CHARS)]

NoLLM ==
    [invoked |-> FALSE, ok |-> FALSE, context |-> EmptyContext,
     history |-> <<>>, question |-> ""]

\* str(e) handed back instead of an apology.
Apology_error_text(kind) == kind

Apology(kind) ==
    CASE kind = "rate_limit_exceeded" ->
            "I apologize, but I'm currently experiencing high demand. Please try again in a few moments."
      [] kind = "Request too large" ->
            "I apologize, but the question requires processing too much information. Please try asking a more specific question or break it down into smaller parts."
      [] OTHER ->
            "I apologize, but I encountered an error while processing your question. Please try again."

Record_newest_first(h, q, a) == <<[question |-> q, answer |-> a]>> \o h

\* self.conversation_history.append({"question": ..., "answer": ...})
Record(h, q, a) == Append(h, [question |-> q, answer |-> a])

\* QAChain.run: what it returns, the history it leaves and the LLM call it made.
\* out: the outcome of _count_tokens and chain.invoke.
run(chain, vs, q, bad, out) ==
    LET context == get_context(vs, q, bad)
        history == format_history(chain.conversation_history)
        total   == count_tokens(context.keep) + count_tokens(HistoryChars(history))
                   + count_tokens(TextChars(q))
        passed  == IF total > TOKEN_LIMIT THEN Truncate(context) ELSE context
        call    == [invoked |-> TRUE, ok |-> out.kind = "ok", context |-> passed,
                    history |-> history, question |-> q]
        raised  == retrieval_raises(vs, bad)
    IN  IF out.kind = "count_tokens raises"
        THEN [ret |-> Apology("error"), chain |-> chain, llm |-> NoLLM,
              retrieval_error |-> raised]
        ELSE IF out.kind = "ok"
        THEN [ret |-> out.content,
              chain |-> [chain EXCEPT !.conversation_history =
                            Record(@, q, out.content)],
              llm |-> call, retrieval_error |-> raised]
        ELSE [ret |-> Apology(out.kind), chain |-> chain, llm |-> call,
              retrieval_error |-> raised]

----------------------------------------------------------------------------
(* api.py *)

Slots == 1..MaxUploads

Idle == [pc |-> "idle", file |-> ""]

\* A handler step, as the client and the log see it.
Event(op, status, detail) ==
    [op |-> op, status |-> status, detail |-> detail, file |-> "", seen |-> 0,
     current_reports |-> 0, question |-> "", answer |-> "", sources |-> <<>>,
     log |-> "", llm |-> NoLLM, retrieval_error |-> FALSE, outcome |-> "",
     args |-> <<>>, result |-> <<>>]

\* shutil.rmtree on an existing data/chroma: it removes the directory, or raises
\* and leaves it.
Rmtree_skipped(dir) ==
    {[exists |-> TRUE, docs |-> dir.docs, error |-> FALSE]}

Rmtree(dir) ==
    {[exists |-> FALSE, docs |-> {}, error |-> FALSE],
     [exists |-> TRUE, docs |-> dir.docs, error |-> TRUE]}

NoRmtree(dir) == {[exists |-> dir.exists, docs |-> dir.docs, error |-> FALSE]}

Dir(o) == [exists |-> o.exists, docs |-> o.docs]

LimitReached_off_by_one(vs) == Len(vs) > MAX_REPORTS

\* api.py:51
LimitReached(vs) == Len(vs) >= MAX_REPORTS

NoReportStored_unchecked(qa, vs) == FALSE

\* api.py:146
NoReportStored(qa, vs) == ~qa.active \/ vs = <<>>

\* upload_file up to `content = await file.read()` (api.py:38-56).
upload_file_begin(r, f) ==
    /\ uploads[r].pc = "idle"
    /\ \E o \in (IF vector_stores = <<>> /\ chroma.exists
                 THEN Rmtree(chroma) ELSE NoRmtree(chroma)) :
        /\ chroma' = Dir(o)
        /\ IF o.error
           THEN /\ last' = [Event("upload", 500, "Failed to clear old storage before upload.")
                              EXCEPT !.file = f, !.seen = Len(vector_stores),
                                     !.log = "Error clearing data/chroma before first upload"]
                /\ UNCHANGED uploads
           ELSE IF LimitReached(vector_stores)
           THEN /\ last' = [Event("upload", 400, "Maximum number of reports (3) reached")
                              EXCEPT !.file = f, !.seen = Len(vector_stores)]
                /\ UNCHANGED uploads
           ELSE /\ uploads' = [uploads EXCEPT ![r] =
                                 [pc |-> "reading", file |-> f]]
                /\ last' = [Event("upload_await", 0, "")
                              EXCEPT !.file = f, !.seen = Len(vector_stores)]
    /\ UNCHANGED <<vector_stores, qa_chain>>

\* upload_file from the return of file.read() to its response (api.py:57-118).
upload_file_resume(r) ==
    LET f    == uploads[r].file
        kind == FileKind(f)
        ev(status, detail) ==
            [Event("upload", status, detail) EXCEPT !.file = f, !.seen = Len(vector_stores)]
    IN
    /\ uploads[r].pc = "reading"
    /\ uploads' = [uploads EXCEPT ![r] = Idle]
    /\ IF kind = "unparseable"
       THEN /\ last' = ev(400, "Failed to parse PDF")
            /\ UNCHANGED <<vector_stores, qa_chain, chroma>>
       ELSE IF kind = "no_text"
       THEN /\ last' = ev(400, "Could not extract text from the PDF.")
            /\ UNCHANGED <<vector_stores, qa_chain, chroma>>
       ELSE IF kind = "no_chunks"
       THEN /\ last' = ev(400, "Failed to split extracted text into chunks.")
            /\ UNCHANGED <<vector_stores, qa_chain, chroma>>
       ELSE \* VectorStore(); create_collection() opens (and creates) data/chroma
            IF "add_texts" \in VectorStoreMethods
            THEN /\ chroma' = [exists |-> TRUE,
                               docs |-> chroma.docs \cup DocsOf(f, Len(vector_stores) + 1)]
                 /\ vector_stores' = Append(vector_stores, NewStore)
                 /\ qa_chain' = NewChain
                 /\ last' = [ev(200, "File uploaded and processed successfully")
                               EXCEPT !.current_reports = Len(vector_stores')]
            ELSE /\ chroma' = [chroma EXCEPT !.exists = TRUE]
                 /\ last' = ev(500, "'VectorStore' object has no attribute 'add_texts'")
                 /\ UNCHANGED <<vector_stores, qa_chain>>

\* reset_reports (api.py:120-140).
reset_reports ==
    /\ vector_stores' = <<>>
    /\ qa_chain' = NoChain
    /\ \E o \in (IF chroma.exists THEN Rmtree(chroma) ELSE NoRmtree(chroma)) :
        /\ chroma' = Dir(o)
        /\ last' = [Event("reset", 200, "Reports reset successfully")
                      EXCEPT !.log = IF ~chroma.exists THEN ""
                                     ELSE IF o.error
                                     THEN "Error deleting persistent storage"
                                     ELSE "Successfully deleted persistent storage"]
    /\ UNCHANGED uploads

\* ask_question (api.py:142-179).
ask_question(q, bad, out) ==
    LET ev(status, detail) ==
            [Event("question", status, detail)
               EXCEPT !.question = q, !.seen = Len(vector_stores)]
    IN
    IF NoReportStored(qa_chain, vector_stores)
    THEN /\ last' = ev(400, "Please upload at least one PDF file first")
         /\ UNCHANGED <<vector_stores, qa_chain, chroma, uploads>>
    ELSE IF q \in {MISSING, ""}
    THEN \* the HTTPException(400) raised inside the try is caught by `except Exception`
         /\ last' = ev(500, "Error processing question: 400: Question is required")
         /\ UNCHANGED <<vector_stores, qa_chain, chroma, uploads>>
    ELSE IF ~qa_chain.active
    THEN /\ last' = ev(500, "Error processing question: 'NoneType' object has no attribute 'run'")
         /\ UNCHANGED <<vector_stores, qa_chain, chroma, uploads>>
    ELSE LET res == run(qa_chain, vector_stores, q, bad, out)
         IN  /\ Len(res.chain.conversation_history) <= MaxApiHistory
             /\ qa_chain' = res.chain
             \* run returns a str; result_dict.get raises AttributeError
             /\ last' = [ev(500, "Error processing question: 'str' object has no attribute 'get'")
                           EXCEPT !.llm = res.llm, !.retrieval_error = res.retrieval_error,
                                  !.outcome = out.kind]
             /\ UNCHANGED <<vector_stores, chroma, uploads>>

\* general_chat (api.py:182-208).
general_chat(q, out) ==
    LET ev(status, detail) ==
            [Event("general_chat", status, detail) EXCEPT !.question = q]
        call == [NoLLM EXCEPT !.invoked = TRUE, !.ok = out.kind = "ok", !.question = q]
    IN
    /\ last' =
         IF q \in {MISSING, ""}
         THEN ev(500, "Error in general chat: 400: Question is required")
         ELSE IF out.kind = "ok"
         THEN [ev(200, "") EXCEPT !.answer = out.content, !.llm = call]
         ELSE IF out.kind = "rate_limit_exceeded"
         THEN [ev(429, "General chat limit reached. Please try again later.")
                 EXCEPT !.llm = call]
         ELSE [ev(500, "Error in general chat") EXCEPT !.llm = call]
    /\ UNCHANGED <<vector_stores, qa_chain, chroma, uploads>>

\* A direct call of QAChain.run on the chain (qa_chain.py:73-122).
qa_run(q, bad, out) ==
    LET res == run(qa_chain, vector_stores, q, bad, out)
    IN  /\ qa_chain.active
        /\ Len(vector_stores) + Len(res.chain.conversation_history) <= MaxChainSize
        /\ qa_chain' = res.chain
        /\ last' = [Event("run", 0, "") EXCEPT !.question = q, !.answer = res.ret,
                                               !.seen = Len(vector_stores), !.llm = res.llm,
                                               !.retrieval_error = res.retrieval_error,
                                               !.outcome = out.kind]
        /\ UNCHANGED <<vector_stores, chroma, uploads>>

\* A direct call of QAChain._get_context on the chain (qa_chain.py:38-52).
qa_get_context(q, bad) ==
    /\ qa_chain.active
    /\ last' = [Event("get_context", 0, "")
                  EXCEPT !.question = q, !.seen = Len(vector_stores),
                         !.retrieval_error = retrieval_raises(vector_stores, bad),
                         !.result = get_context(vector_stores, q, bad)]
    /\ UNCHANGED <<vector_stores, qa_chain, chroma, uploads>>

----------------------------------------------------------------------------
(* Specifications *)

\* The server after import: api.py:30-31; data/chroma may be left from an earlier run.
Init ==
    /\ vector_stores = <<>>
    /\ qa_chain = NoChain
    /\ chroma \in {[exists |-> e, docs |-> {}] : e \in BOOLEAN}
    /\ uploads = [r \in Slots |-> Idle]
    /\ last = Event("start", 0, "")

Next ==
    \/ \E r \in Slots, f \in Files : upload_file_begin(r, f)
    \/ \E r \in Slots : upload_file_resume(r)
    \/ reset_reports
    \/ \E q \in QuestionInputs, bad \in 0..Len(vector_stores), out \in RunOutcomes :
          ask_question(q, bad, out)
    \/ \E q \in QuestionInputs, out \in LLMOutcomes : general_chat(q, out)

Spec == Init /\ [][Next]_vars

\* n reports stored the way upload_file lines 92-103 store them: one
\* VectorStore per upload, its chunks added to the collection it opens, and a
\* QAChain over the list.
Loaded(n) ==
    /\ vector_stores = [i \in 1..n |-> NewStore]
    /\ qa_chain = IF n = 0 THEN NoChain ELSE NewChain
    /\ chroma = [exists |-> TRUE,
                 docs |-> UNION {DocsOf(SeedFiles[i], i) : i \in 1..n}]
    /\ uploads = [r \in Slots |-> Idle]
    /\ last = Event("start", 0, "")

InitLoaded == \E n \in 1..MAX_REPORTS : Loaded(n)

\* The handlers that read or write the reports.
NextLoaded ==
    \/ \E r \in Slots, f \in Files : upload_file_begin(r, f)
    \/ \E r \in Slots : upload_file_resume(r)
    \/ reset_reports
    \/ \E q \in QuestionInputs, bad \in 0..Len(vector_stores), out \in RunOutcomes :
          ask_question(q, bad, out)

SpecLoaded == InitLoaded /\ [][NextLoaded]_vars

\* MAX_REPORTS stores loaded through add_documents with the chunks of
\* documents that are longer than the API's text splitter makes them.
LoadedLong ==
    /\ vector_stores = [i \in 1..MAX_REPORTS |-> NewStore]
    /\ qa_chain = NewChain
    /\ chroma = [exists |-> TRUE,
                 docs |-> UNION {DocsOf(LongFile, i) : i \in 1..MAX_REPORTS}]
    /\ uploads = [r \in Slots |-> Idle]
    /\ last = Event("start", 0, "")

\* QAChain as a class: a chain constructed over 1..3 loaded stores, then run.
InitChain == LoadedLong \/ \E n \in 1..MAX_REPORTS : Loaded(n)

NextChain ==
    \E q \in Questions, bad \in 0..Len(vector_stores), out \in RunOutcomes :
        qa_run(q, bad, out)

SpecChain == InitChain /\ [][NextChain]_vars

\* A store of each kind: loaded, opened on an empty collection, or never opened.
StoreOfKind(kind) ==
    CASE kind = "loaded" -> NewStore
      [] kind = "other"  -> OtherStore
      [] OTHER           -> FreshStore

\* _get_context as a function of the stores: a chain over 1..3 stores of any
\* kinds, the loaded ones having added the chunks of their document.
InitContext ==
    \E n \in 1..MAX_REPORTS :
        \E kinds \in [1..n -> {"loaded", "other", "fresh"}] :
            /\ vector_stores = [i \in 1..n |-> StoreOfKind(kinds[i])]
            /\ qa_chain = NewChain
            /\ chroma = [exists |-> TRUE,
                         docs |-> UNION {DocsOf(SeedFiles[i], i) :
                                           i \in {j \in 1..n : kinds[j] = "loaded"}}]
            /\ uploads = [r \in Slots |-> Idle]
            /\ last = Event("start", 0, "")

NextContext ==
    \E q \in Questions, bad \in 0..Len(vector_stores) : qa_get_context(q, bad)

SpecContext == InitContext /\ [][NextContext]_vars

----------------------------------------------------------------------------
(* Properties *)

\* The chunks of a context, section after section.
RECURSIVE ContextDocs(_)
ContextDocs(secs) ==
    IF secs = <<>> THEN <<>> ELSE Head(secs).docs \o ContextDocs(Tail(secs))

\* C1: an upload of a PDF with text and at least one chunk, made while fewer
\* than MAX_REPORTS reports are stored (and whose storage clean-up did not
\* fail), is answered 200 with current_reports the new length of
\* vector_stores, the new store appended and qa_chain rebuilt.
C1_UploadStoresReport ==
    (/\ last.op = "upload"
     /\ FileKind(last.file) = "ok"
     /\ last.seen < MAX_REPORTS
     /\ last.log = "")
    => /\ last.status = 200
       /\ Len(vector_stores) = last.seen + 1
       /\ last.current_reports = Len(vector_stores)
       /\ qa_chain.active

\* C2: a non-empty question asked while at least one report is stored is
\* answered 200 with the value QAChain.run produced under 'answer' and the
\* retrieved chunks of the prompt under 'sources'.
C2_QuestionAnswered ==
    (/\ last.op = "question"
     /\ last.question \in Questions
     /\ last.seen >= 1)
    => /\ last.status = 200
       /\ last.answer # ""
       /\ last.sources = ContextDocs(last.llm.context.sections)

C4_LimitRejected ==
    [][\A r \in Slots, f \in Files :
         (upload_file_begin(r, f) /\ Len(vector_stores) = MAX_REPORTS)
         => /\ last'.op = "upload"
            /\ last'.status = 400
            /\ last'.detail = "Maximum number of reports (3) reached"
            /\ UNCHANGED <<vector_stores, qa_chain, chroma, uploads>>]_vars

C4_Witness ==
    /\ last.op = "upload"
    /\ last.status = 400
    /\ last.seen = MAX_REPORTS
    /\ Len(vector_stores) = MAX_REPORTS
    /\ qa_chain.active
    /\ chroma.docs # {}

\* C5: a question asked while no report is stored is answered 400 'Please
\* upload at least one PDF file first' and the LLM is not invoked.
C5_NoReportNoAnswer ==
    (last.op = "question" /\ last.seen = 0)
    => /\ last.status = 400
       /\ last.detail = "Please upload at least one PDF file first"
       /\ ~last.llm.invoked

C5_Witness ==
    /\ last.op = "question"
    /\ last.question = "q1"
    /\ last.status = 400
    /\ vector_stores = <<>>
    /\ chroma.exists

\* C6 as stated: when reset answers 'Reports reset successfully',
\* vector_stores is empty, qa_chain is None and data/chroma does not exist.
C6_ResetRemovesStorage ==
    (last.op = "reset" /\ last.detail = "Reports reset successfully")
    => /\ vector_stores = <<>>
       /\ ~qa_chain.active
       /\ ~chroma.exists

\* C6 amended: when reset answers 'Reports reset successfully', vector_stores
\* is empty and qa_chain is None; data/chroma does not exist unless its
\* removal raised, which reset only logs.
C6_ResetRemovesStorageUnlessRmtreeRaises ==
    (last.op = "reset" /\ last.detail = "Reports reset successfully")
    => /\ vector_stores = <<>>
       /\ ~qa_chain.active
       /\ (chroma.exists => last.log = "Error deleting persistent storage")

C6_Witness ==
    /\ last.op = "reset"
    /\ last.log = "Successfully deleted persistent storage"
    /\ ~chroma.exists
    /\ vector_stores = <<>>

\* C7: in the context assembled for a question, the section 'Report i' holds
\* only chunks added by the i-th upload.
C7_SectionsHoldOwnChunks ==
    \A i \in 1..Len(last.llm.context.sections) :
        LET s == last.llm.context.sections[i]
        IN  \A j \in 1..Len(s.docs) : s.docs[j].report = s.report

\* C8: whenever QAChain.run invokes the LLM, the tokens of the context, the
\* formatted history and the question it passes sum to at most TOKEN_LIMIT.
C8_WithinTokenBudget ==
    (last.op = "run" /\ last.llm.invoked)
    => count_tokens(last.llm.context.keep)
       + count_tokens(HistoryChars(last.llm.history))
       + count_tokens(TextChars(last.llm.question)) <= TOKEN_LIMIT

\* The lines C9 describes for a history h: the last min(3, n) exchanges,
\* oldest first, numbered from 1.
C9_Lines(h) ==
    LET n == Len(h)
        m == IF n < 3 THEN n ELSE 3
    IN  IF n = 0
        THEN <<[tag |-> "-", k |-> 0, text |-> "No previous conversation."]>>
        ELSE [j \in 1..(2 * m) |->
                LET k == (j + 1) \div 2
                IN  IF j % 2 = 1
                    THEN [tag |-> "Q", k |-> k, text |-> h[n - m + k].question]
                    ELSE [tag |-> "A", k |-> k, text |-> h[n - m + k].answer]]

\* C9: _format_history gives 'No previous conversation.' for an empty history
\* and otherwise the last min(3, n) exchanges, oldest first, as 'Qk:'/'Ak:'
\* lines with k from 1; the history of every prompt is that of the
\* conversation as it stood before the call.
C9_HistoryFormat ==
    LET h   == qa_chain.conversation_history
        pre == IF last.llm.ok THEN SubSeq(h, 1, Len(h) - 1) ELSE h
    IN  /\ format_history(h) = C9_Lines(h)
        /\ (last.op = "run" /\ last.llm.invoked) => last.llm.history = C9_Lines(pre)

\* C9 witness: the LLM was called on a chain holding four exchanges, the
\* oldest of them asking another question than the second, and six lines of
\* history were passed.
C9_Witness ==
    LET h == qa_chain.conversation_history
    IN  /\ last.op = "run"
        /\ last.llm.invoked
        /\ ~last.llm.ok
        /\ Len(h) = 4
        /\ h[1].question # h[2].question
        /\ h[1].answer # h[4].answer
        /\ Len(last.llm.history) = 6

\* C10: a request to /api/question (with a report stored) or to
\* /api/general_chat without a question, or with an empty one, is answered
\* 400 'Question is required' and no LLM call is made.
C10_QuestionRequired ==
    (/\ last.question \in {"", MISSING}
     /\ \/ last.op = "general_chat"
        \/ last.op = "question" /\ last.seen >= 1)
    => /\ last.status = 400
       /\ last.detail = "Question is required"
       /\ ~last.llm.invoked

Apologies ==
    {"I apologize, but I'm currently experiencing high demand. Please try again in a few moments.",
     "I apologize, but the question requires processing too much information. Please try asking a more specific question or break it down into smaller parts.",
     "I apologize, but I encountered an error while processing your question. Please try again."}

\* C11: a call of QAChain.run in which token counting or the LLM call fails
\* still returns, with one of the three fixed apology strings, and leaves
\* conversation_history exactly as it was before the call.
C11_FailureReturnsApology ==
    [][(last'.op = "run" /\ ~last'.llm.ok)
       => /\ last'.answer \in Apologies
          /\ qa_chain'.conversation_history = qa_chain.conversation_history]_vars

\* C11 witness: the LLM call failed as too large on a chain that holds an
\* exchange, and run returned the matching apology.
C11_Witness ==
    /\ last.op = "run"
    /\ last.llm.invoked
    /\ ~last.llm.ok
    /\ last.answer \in Apologies
    /\ last.answer = Apology("Request too large")
    /\ Len(qa_chain.conversation_history) >= 1

\* C12: every call of run that obtained an LLM response appends exactly the
\* entry {question, answer} of that call to conversation_history, and no other
\* call changes conversation_history: entries are never removed, reordered or
\* modified.
C12_HistoryAppendOnly ==
    [][IF last'.op = "run" /\ last'.llm.ok
       THEN qa_chain'.conversation_history =
                Append(qa_chain.conversation_history,
                       [question |-> last'.question, answer |-> last'.answer])
       ELSE qa_chain'.conversation_history = qa_chain.conversation_history]_vars

\* C12 witness: three calls were answered; the history holds their three
\* exchanges, not all alike, the newest last.
C12_Witness ==
    LET h == qa_chain.conversation_history
    IN  /\ last.op = "run"
        /\ last.llm.ok
        /\ Len(h) = 3
        /\ h[1] # h[2]
        /\ h[2] # h[3]
        /\ h[3] = [question |-> last.question, answer |-> last.answer]

\* ---- VectorStore as a class: one store object and its methods ----

NoCollection_never(store) == FALSE

\* `self.vectorstore is None`
NoCollection(store) == store.vectorstore = None

\* The event of a VectorStore method; `raised` names the exception, "" if none.
StoreEvent(op, raised, result) ==
    [Event(op, 0, "") EXCEPT !.outcome = raised, !.result = result]

\* create_collection(): opens the collection of the default name.
vs_create_collection ==
    /\ vector_stores' = [vector_stores EXCEPT ![1].vectorstore = "annual_report"]
    /\ chroma' = [chroma EXCEPT !.exists = TRUE]
    /\ last' = StoreEvent("create_collection", "", "annual_report")
    /\ UNCHANGED <<qa_chain, uploads>>

\* add_documents(documents): creates the collection when there is none, then
\* adds the chunks.
vs_add_documents(f) ==
    LET opened == IF NoCollection(vector_stores[1])
                  THEN [vector_stores EXCEPT ![1].vectorstore = "annual_report"]
                  ELSE vector_stores
    IN  /\ vector_stores' = opened
        /\ chroma' = [exists |-> TRUE, docs |-> chroma.docs \cup DocsOf(f, 1)]
        /\ last' = [StoreEvent("add_documents", "", <<>>) EXCEPT !.file = f]
        /\ UNCHANGED <<qa_chain, uploads>>

vs_get_retriever ==
    /\ last' = IF NoCollection(vector_stores[1])
               THEN StoreEvent("get_retriever", "ValueError", <<>>)
               ELSE StoreEvent("get_retriever", "", [k |-> RETRIEVER_K])
    /\ UNCHANGED <<vector_stores, qa_chain, chroma, uploads>>

vs_search(q) ==
    /\ last' = [IF NoCollection(vector_stores[1])
                THEN StoreEvent("search", "ValueError", <<>>)
                ELSE StoreEvent("search", "", TopK(Collection(vector_stores[1]), q, N_RESULTS))
                EXCEPT !.question = q]
    /\ UNCHANGED <<vector_stores, qa_chain, chroma, uploads>>

vs_get_stats ==
    /\ last' = IF NoCollection(vector_stores[1])
               THEN StoreEvent("get_stats", "", [status |-> "No collection initialized"])
               ELSE StoreEvent("get_stats", "",
                               [total_documents |-> Cardinality(Collection(vector_stores[1])),
                                name |-> vector_stores[1].vectorstore])
    /\ UNCHANGED <<vector_stores, qa_chain, chroma, uploads>>

vs_persist ==
    /\ last' = StoreEvent("persist", "", <<>>)
    /\ UNCHANGED <<vector_stores, qa_chain, chroma, uploads>>

vs_reset ==
    /\ vector_stores' = [vector_stores EXCEPT ![1].vectorstore = None]
    /\ last' = StoreEvent("reset", "", <<>>)
    /\ UNCHANGED <<qa_chain, chroma, uploads>>

\* VectorStore(): a store object just constructed.
InitStore ==
    /\ vector_stores = <<FreshStore>>
    /\ qa_chain = NoChain
    /\ chroma \in {[exists |-> e, docs |-> {}] : e \in BOOLEAN}
    /\ uploads = [r \in Slots |-> Idle]
    /\ last = Event("start", 0, "")

NextStore ==
    \/ vs_create_collection
    \/ \E f \in {SeedFiles[i] : i \in 1..MAX_REPORTS} \cup {LongFile} : vs_add_documents(f)
    \/ vs_get_retriever
    \/ \E q \in Questions : vs_search(q)
    \/ vs_get_stats
    \/ vs_persist
    \/ vs_reset

SpecStore == InitStore /\ [][NextStore]_vars

\* ---- PDFProcessor._split_text_into_chunks as a function ----

\* A text is a sequence of runs: a run of n > 0 word characters is n, a run of
\* whitespace is 0.  A word is its number of characters.
Texts ==
    UNION {[1..n -> 0..MaxWordChars] : n \in 0..MaxTextRuns}

\* text.split(): the words, without the whitespace.
SplitWords(text) == SelectSeq(text, LAMBDA len : len > 0)

\* len(' '.join(chunk)): the words and one space between neighbours.
RECURSIVE JoinChars(_)
JoinChars(chunk) ==
    IF chunk = <<>> THEN 0
    ELSE IF Len(chunk) = 1 THEN chunk[1]
    ELSE chunk[1] + 1 + JoinChars(Tail(chunk))

\* The loop of _split_text_into_chunks from word k on and the flush after it.
RECURSIVE SplitLoop(_, _, _, _, _, _)
SplitLoop(words, k, chunks, current_chunk, current_length, chunk_size) ==
    IF k > Len(words)
    THEN IF current_chunk # <<>> THEN Append(chunks, current_chunk) ELSE chunks
    ELSE LET word        == words[k]
             word_length == word + 1
         IN  IF current_length + word_length > chunk_size
             THEN SplitLoop(words, k + 1, Append(chunks, current_chunk),
                            <<word>>, word_length, chunk_size)
             ELSE SplitLoop(words, k + 1, chunks,
                            Append(current_chunk, word),
                            current_length + word_length, chunk_size)

\* PDFProcessor._split_text_into_chunks(text, chunk_size): each chunk is the
\* sequence of the words joined into it.
split_text_into_chunks(text, chunk_size) ==
    SplitLoop(SplitWords(text), 1, <<>>, <<>>, 0, chunk_size)

\* A call of _split_text_into_chunks on the arguments drawn by InitSplit.
pdf_split_text ==
    /\ last.op = "start"
    /\ last' = [Event("split", 0, "")
                  EXCEPT !.args = last.args,
                         !.result = split_text_into_chunks(last.args[1], last.args[2])]
    /\ UNCHANGED <<vector_stores, qa_chain, chroma, uploads>>

InitSplit ==
    \E text \in Texts, chunk_size \in 1..MaxSplitSize :
        /\ vector_stores = <<>>
        /\ qa_chain = NoChain
        /\ chroma = [exists |-> FALSE, docs |-> {}]
        /\ uploads = [r \in Slots |-> Idle]
        /\ last = [Event("start", 0, "") EXCEPT !.args = <<text, chunk_size>>]

NextSplit == pdf_split_text

SpecSplit == InitSplit /\ [][NextSplit]_vars

\* The first min(3, n) documents a store's retriever returns for the question.
C13_Top(store, q) ==
    LET r == get_relevant_documents(store, q)
    IN  SubSeq(r, 1, IF Len(r) < 3 THEN Len(r) ELSE 3)

\* C13: _get_context takes from each store at most the first 3 documents of
\* its retriever, in retriever order, emits the stores in list order, each
\* labelled with its 1-based position, and omits a store that retrieved
\* nothing without renumbering the others: at most 3 chunks per report and 9
\* in all.
C13_ContextLayout ==
    (last.op = "get_context" /\ ~last.retrieval_error)
    => LET secs == last.result.sections
           n    == Len(vector_stores)
       IN  /\ \A k \in 1..Len(secs) :
                /\ secs[k].report \in 1..n
                /\ secs[k].docs = C13_Top(vector_stores[secs[k].report], last.question)
                /\ Len(secs[k].docs) \in 1..3
           /\ \A k \in 1..(Len(secs) - 1) : secs[k].report < secs[k + 1].report
           /\ \A i \in 1..n :
                (C13_Top(vector_stores[i], last.question) # <<>>)
                <=> (\E k \in 1..Len(secs) : secs[k].report = i)
           /\ Len(ContextDocs(secs)) <= 9

\* C13 witness: of three stores the second retrieved nothing; the context
\* holds 'Report 1' and 'Report 3', each with the first three of the four
\* documents its retriever returned.
C13_Witness ==
    /\ last.op = "get_context"
    /\ ~last.retrieval_error
    /\ Len(vector_stores) = 3
    /\ Len(get_relevant_documents(vector_stores[1], last.question)) = 4
    /\ Len(last.result.sections) = 2
    /\ last.result.sections[1].report = 1
    /\ last.result.sections[2].report = 3
    /\ Len(last.result.sections[2].docs) = 3

C15_ContextTruncation ==
    (last.op = "run" /\ last.llm.invoked)
    => LET h     == qa_chain.conversation_history
           pre   == IF last.llm.ok THEN SubSeq(h, 1, Len(h) - 1) ELSE h
           full  == get_context(vector_stores, last.question,
                                IF last.retrieval_error THEN 1 ELSE 0)
           hist  == format_history(pre)
           total == count_tokens(full.keep) + count_tokens(HistoryChars(hist))
                    + count_tokens(TextChars(last.question))
       IN  /\ last.llm.context.sections = full.sections
           /\ last.llm.context.keep =
                IF total <= TOKEN_LIMIT THEN full.keep
                ELSE IF full.keep < CONTEXT_CHARS THEN full.keep ELSE CONTEXT_CHARS
           /\ last.llm.history = hist
           /\ last.llm.question = last.question

\* C15 witness: a context longer than CONTEXT_CHARS was cut to CONTEXT_CHARS
\* characters for a short question, because of the history.
C15_Witness ==
    /\ last.op = "run"
    /\ last.llm.invoked
    /\ last.question = "q1"
    /\ JoinedChars(last.llm.context.sections) > CONTEXT_CHARS
    /\ last.llm.context.keep = CONTEXT_CHARS
    /\ Len(last.llm.history) = 4

\* C15, the other case: a context longer than CONTEXT_CHARS was passed whole.
C15_WitnessWhole ==
    /\ last.op = "run"
    /\ last.llm.invoked
    /\ last.llm.context.keep > CONTEXT_CHARS
    /\ last.llm.context.keep = JoinedChars(last.llm.context.sections)

\* C16: a VectorStore has no collection when constructed and after reset();
\* create_collection and add_documents give it one without raising; the other
\* methods leave it as it is; get_retriever and search raise ValueError
\* exactly when there is none, and get_stats then returns the status
\* dictionary instead of raising.
C16_ValueErrorIffNoCollection ==
    /\ vector_stores[1].vectorstore = "None"
    /\ [][LET before == vector_stores[1].vectorstore
              after  == vector_stores'[1].vectorstore
              op     == last'.op
          IN  /\ op = "reset" => after = "None" /\ last'.outcome = ""
              /\ op \in {"create_collection", "add_documents"}
                   => after # "None" /\ last'.outcome = ""
              /\ op \in {"get_retriever", "search", "get_stats", "persist"}
                   => after = before
              /\ op \in {"get_retriever", "search"}
                   => (last'.outcome = "ValueError" <=> before = "None")
              /\ op = "get_stats"
                   => /\ last'.outcome = ""
                      /\ before = "None"
                           => last'.result = [status |-> "No collection initialized"]
         ]_vars

\* C16 witness: search raised ValueError on a store that had added documents
\* and was then reset.
C16_Witness ==
    /\ last.op = "search"
    /\ last.outcome = "ValueError"
    /\ chroma.docs # {}
    /\ vector_stores[1].vectorstore = "None"

\* C17: every chunk _split_text_into_chunks returns is non-empty and at most
\* chunk_size characters long.
C17_ChunksWithinSize ==
    last.op = "split"
    => \A k \in 1..Len(last.result) :
          /\ JoinChars(last.result[k]) >= 1
          /\ JoinChars(last.result[k]) <= last.args[2]

====
